---------------------------- MODULE Spec2Model ----------------------------
(***************************************************************************)
(* Model of the heavy-hitter estimators of bloom-filter-vs-min-cut:        *)
(*   - LRUCache, the recency window every DataStructure owns               *)
(*     (data_structure.py),                                                *)
(*   - MinCut, the k x m counter table (min_cut.py),                       *)
(*   - SCBloomFilter, the selective counting Bloom filter                  *)
(*     (selective_counting_bloom_filter.py).                               *)
(* One DataStructure instance `ds` is driven through add_new,              *)
(* should_exists and is_exists the way main._test drives it.  The instance *)
(* is either a MinCut or an SCBloomFilter; the fields of the other class   *)
(* hold the placeholder <<>> / 0 and are never read.                       *)
(*                                                                         *)
(* Python lists are functions over 0..len-1, the OrderedDict is the        *)
(* sequence of its keys in iteration order (head = oldest), floats that    *)
(* are quotients of integers are kept as exact fractions <<num, den>>.     *)
(***************************************************************************)
EXTENDS Integers, Sequences, FiniteSets

(* ------------------------------ bounds --------------------------------- *)
\* Scaled-down constructor arguments (main.py passes 5000, 350, 350, 33280,
\* 2300 and 1600000).
CACHE_SIZE == 2
MC_NUM_OF_BUCKETS == 2
MC_NUM_OF_HEAVY_HITTERS == 2
BF_SIZE == 2
BF_MAX_NUMBER_OF_ELEMENTS == 2
BF_MEMORY_SIZE == 200
\* add_new is called at most MaxOps times in a run.
MaxOps == 4

\* The keys (IP strings) the harness inserts and queries.
KeyList == <<"10.0.0.1", "10.0.0.2", "10.0.0.3">>
Keys == {KeyList[i] : i \in 1..Len(KeyList)}
\* Values mmh3.hash may return: a signed 32-bit integer, here a negative and
\* a non-negative representative.
HashVals == {-1, 0}
\* The seeds of the hash functions: range(num_of_hash_functions); main.py
\* builds both structures with 30 hash functions, the model with two.
HashSeeds == 0..1
NUM_OF_HASH_FUNCTIONS == Cardinality(HashSeeds)

(* ---------------------------- constants -------------------------------- *)
ALPHA == 100
\* sys.maxsize, the start value of the minimum in MinCut._count.  TLC's
\* integers are 32 bits wide, so the largest of them stands for it; every
\* counter of the model stays below MaxOps.
sys_maxsize == 2147483647

VARIABLES
    ds,                       \* class of the instance: "MinCut" | "SCBloomFilter"
    num_of_hash_functions,    \* DataStructure.num_of_hash_functions
    capacity,                 \* LRUCache.capacity
    cache,                    \* LRUCache.cache: keys in OrderedDict order
    num_of_buckets,           \* MinCut.num_of_buckets
    num_of_elements_to_save,  \* MinCut.num_of_elements_to_save
    table,                    \* MinCut.table
    elements,                 \* MinCut.elements / SCBloomFilter.elements
    bf_size,                  \* SCBloomFilter.bf_size
    max_n,                    \* SCBloomFilter.max_n
    memory_size,              \* SCBloomFilter.memory_size
    n,                        \* SCBloomFilter.n
    bound,                    \* SCBloomFilter.bound, a fraction <<num, den>>
    bloom_filter,             \* SCBloomFilter.bloom_filter
    mmh3_hash,                \* the library hash: (key, seed) -> 32-bit value
    hist,                     \* history: the arguments of the add_new calls so far
    admitted,                 \* history: the keys whose add_new wrote the Bloom counters
    op,                       \* the last call made on ds
    ret                       \* what the last call returned

config == <<ds, num_of_hash_functions, capacity, num_of_buckets,
            num_of_elements_to_save, bf_size, max_n, memory_size, mmh3_hash>>
oracle == <<cache>>
sketch == <<table, elements, n, bound, bloom_filter>>
vars == <<ds, num_of_hash_functions, capacity, cache, num_of_buckets,
          num_of_elements_to_save, table, elements, bf_size, max_n,
          memory_size, n, bound, bloom_filter, mmh3_hash, hist, admitted,
          op, ret>>

(* ------------------------------ helpers -------------------------------- *)
SeqToSet(s) == {s[i] : i \in 1..Len(s)}

\* Python bool / None as the harness sees them.
PyBool(b) == IF b THEN "True" ELSE "False"

\* Comparisons of fractions <<num, den>> with positive denominators.
FracLT(a, b) == a[1] * b[2] < b[1] * a[2]
FracGE(a, b) == a[1] * b[2] >= b[1] * a[2]

RECURSIVE IntPow(_, _)
IntPow(b, e) == IF e = 0 THEN 1 ELSE b * IntPow(b, e - 1)

\* The library hash is any function of (key, seed).  The classes treat keys
\* only through it and through equality, so a run with one hash is, up to
\* renaming the keys, a run with any hash that gives the same k-tuples to
\* other keys: only hashes whose tuples are sorted along KeyList are kept.
HashRank(v) == Cardinality({w \in HashVals : w < v})
RECURSIVE HashSignature(_, _, _)
HashSignature(h, key, seeds) ==
    IF seeds = {} THEN 0
    ELSE LET i == CHOOSE j \in seeds : \A l \in seeds : j <= l
         IN  HashRank(h[key, i])
               + Cardinality(HashVals) * HashSignature(h, key, seeds \ {i})
HashSorted(h) ==
    \A p \in 1..(Len(KeyList) - 1) :
        HashSignature(h, KeyList[p], HashSeeds)
            <= HashSignature(h, KeyList[p + 1], HashSeeds)

(* ------------------------------ LRUCache ------------------------------- *)
\* OrderedDict.__setitem__: a new key goes last, a present key keeps its place.
OrderedDict_set(c, key) == IF key \in SeqToSet(c) THEN c ELSE Append(c, key)

OrderedDict_move_to_end(c, key) ==
    Append(SelectSeq(c, LAMBDA x : x # key), key)

\* popitem(last=False): drop the first (oldest) item.
OrderedDict_popitem_first(c) == Tail(c)

\* LRUCache.put with the eviction forgotten.
LRUCache_put_no_evict(c, cap, key) ==
    OrderedDict_move_to_end(OrderedDict_set(c, key), key)

\* LRUCache.put without move_to_end: a plain FIFO.
LRUCache_put_no_move(c, cap, key) ==
    LET c1 == OrderedDict_set(c, key)
    IN  IF Len(c1) > cap THEN OrderedDict_popitem_first(c1) ELSE c1

\* LRUCache.put evicting at >= capacity: the window holds one key too few.
LRUCache_put_evict_early(c, cap, key) ==
    LET c1 == OrderedDict_set(c, key)
        c2 == OrderedDict_move_to_end(c1, key)
    IN  IF Len(c2) >= cap THEN OrderedDict_popitem_first(c2) ELSE c2

LRUCache_put(c, cap, key) ==
    LET c1 == OrderedDict_set(c, key)
        c2 == OrderedDict_move_to_end(c1, key)
    IN  IF Len(c2) > cap THEN OrderedDict_popitem_first(c2) ELSE c2

LRUCache_check_if_exists(c, key) == key \in SeqToSet(c)

LRUCache_len(c) == Len(c)

(* ---------------------------- DataStructure ---------------------------- *)
\* _get_hash_values: the list [mmh3.hash(element, i) % range_size : i < k].
\* Python's % takes the sign of the divisor, as TLA+'s does.
_get_hash_values(element, range_size) ==
    [i \in 0..(num_of_hash_functions - 1) |-> mmh3_hash[element, i] % range_size]

(* -------------------------------- MinCut ------------------------------- *)
_init_table(num_of_rows, num_of_cols) ==
    [i \in 0..(num_of_rows - 1) |-> [j \in 0..(num_of_cols - 1) |-> 0]]

RECURSIVE _count_loop(_, _, _, _)
_count_loop(t, cells, i, min_val) ==
    IF i = num_of_hash_functions THEN min_val
    ELSE LET val == t[i][cells[i]]
         IN  _count_loop(t, cells, i + 1, IF val < min_val THEN val ELSE min_val)

\* _count reading row 0 for every cell.
_count_first_row(t, cells) ==
    LET RECURSIVE loop(_, _)
        loop(i, min_val) ==
            IF i = num_of_hash_functions THEN min_val
            ELSE LET val == t[0][cells[i]]
                 IN  loop(i + 1, IF val < min_val THEN val ELSE min_val)
    IN  loop(0, sys_maxsize)

_count(t, cells) == _count_loop(t, cells, 0, sys_maxsize)

RECURSIVE _inc_loop(_, _, _)
_inc_loop(t, cells, i) ==
    IF i = num_of_hash_functions THEN t
    ELSE _inc_loop([t EXCEPT ![i][cells[i]] = @ + 1], cells, i + 1)

\* _inc that stops after the first row.
_inc_first_only(t, cells) == [t EXCEPT ![0][cells[0]] = @ + 1]

_inc(t, cells) == _inc_loop(t, cells, 0)

\* m = len(elements) / num_of_elements_to_save, as a fraction.
MinCut_m == <<Cardinality(elements), num_of_elements_to_save>>

\* should_exists with > in place of >=.
MinCut_should_exists_strict(element) ==
    LET total_sum == _count(table, _get_hash_values(element, num_of_buckets))
    IN  FracLT(MinCut_m, <<total_sum, 1>>)

\* The value MinCut.should_exists returns.
MinCut_should_exists_ret(element) ==
    LET total_sum == _count(table, _get_hash_values(element, num_of_buckets))
    IN  FracGE(<<total_sum, 1>>, MinCut_m)

\* elements.add forgotten in add_new.
MinCut_elements_add_none(element) == elements

MinCut_elements_add(element) == elements \cup {element}

MinCut_add_new(element) ==
    /\ ds = "MinCut"
    /\ Len(hist) < MaxOps
    /\ cache' = LRUCache_put(cache, capacity, element)
    /\ elements' = MinCut_elements_add(element)
    /\ table' = _inc(table, _get_hash_values(element, num_of_buckets))
    /\ hist' = Append(hist, element)
    /\ op' = "add_new"
    /\ ret' = "None"
    /\ UNCHANGED <<config, n, bound, bloom_filter, admitted>>

MinCut_should_exists(element) ==
    /\ ds = "MinCut"
    /\ op' = "should_exists"
    /\ ret' = PyBool(MinCut_should_exists_ret(element))
    /\ UNCHANGED <<config, oracle, sketch, hist, admitted>>

(* ---------------------------- SCBloomFilter ---------------------------- *)
\* e^(y/1000) * 1000 by its power series, in thousandths (rounded down).
RECURSIVE exp_series(_, _, _, _)
exp_series(y, i, term, sum) ==
    IF term = 0 \/ i > 20 THEN sum
    ELSE exp_series(y, i + 1, (term * y) \div (1000 * i), sum + term)

\* math.pow(2, math.log(2, math.e) * (bf_size / max_n)), in thousandths:
\* log(2, e) = 0.6931..., and 2^x = e^(x * 0.6931...).  The value is within
\* 0.3% of the float the code computes; for bf_size and max_n in 1..5 and
\* memory_size 200 or 201 the test `apriori_prob < bound` comes out as it
\* does in floating point for every cache length.
pow2_of_load ==
    LET ratio == (1000 * bf_size) \div max_n
        x == (6931 * ratio) \div 10000
        y == (6931 * x) \div 10000
    IN  exp_series(y, 1, 1000, 0)

\* _update_bound dividing bf_size by the current n instead of max_n.
_update_bound_by_n(n_now) ==
    IF n_now = 0 THEN <<0, 1>>
    ELSE LET ratio == (1000 * bf_size) \div n_now
             x == (6931 * ratio) \div 10000
             y == (6931 * x) \div 10000
         IN  <<1000, 1000 + ALPHA * exp_series(y, 1, 1000, 0)>>

\* _update_bound, given the value of self.n it reads: the new self.bound.
_update_bound(n_now) ==
    IF n_now = 0 THEN <<0, 1>>
    ELSE <<1000, 1000 + ALPHA * pow2_of_load>>

\* _get_apriori_prob on a cache: len(self.cache) / self.memory_size.
_get_apriori_prob(c) == <<LRUCache_len(c), memory_size>>

\* _satisfy_paradox evaluated on the cache as it was before the put.
_satisfy_paradox_stale(c, b) == FracLT(_get_apriori_prob(cache), b)

_satisfy_paradox(c, b) == FracLT(_get_apriori_prob(c), b)

\* The capacity test of add_new with < in place of ==.
cap_reached_less(n_now) == max_n < n_now

\* The capacity test of add_new left out.
cap_reached_never(n_now) == FALSE

\* `if self.max_n == self.n: return` in add_new.
cap_reached(n_now) == max_n = n_now

RECURSIVE _add_loop(_, _, _)
_add_loop(bf, hashed_values, i) ==
    IF i = num_of_hash_functions THEN bf
    ELSE _add_loop([bf EXCEPT ![hashed_values[i]] = @ + 1], hashed_values, i + 1)

\* A plain Bloom filter: the cell is set, not counted.
_add_element_set_bit(bf, element) ==
    LET hashed_values == _get_hash_values(element, bf_size)
    IN  [j \in DOMAIN bf |->
            IF \E i \in DOMAIN hashed_values : hashed_values[i] = j
            THEN 1 ELSE bf[j]]

\* _add_element_to_bloom_filter that stops after the first hash function.
_add_element_first_only(bf, element) ==
    LET hashed_values == _get_hash_values(element, bf_size)
    IN  [bf EXCEPT ![hashed_values[0]] = @ + 1]

_add_element_to_bloom_filter(bf, element) ==
    _add_loop(bf, _get_hash_values(element, bf_size), 0)

\* _check_bloom_filter: the product of the k counters, 0 at the first zero.
RECURSIVE _check_loop(_, _, _)
_check_loop(hashed_values, i, mul_res) ==
    IF i = num_of_hash_functions THEN mul_res
    ELSE IF bloom_filter[hashed_values[i]] = 0 THEN 0
    ELSE _check_loop(hashed_values, i + 1, mul_res * bloom_filter[hashed_values[i]])

_check_bloom_filter(element) ==
    _check_loop(_get_hash_values(element, bf_size), 0, 1)

\* The posterior with apriori_prob in place of (1 - apriori_prob).
SCBloomFilter_posterior_swapped(bf_ans) ==
    LET apriori_prob == _get_apriori_prob(cache)
        k == num_of_hash_functions
        nominator == IntPow(bf_size, k) * bf_ans * apriori_prob[1]
        denominator == nominator + IntPow(n * k, k) * apriori_prob[1]
        res == IF denominator > 0 THEN <<nominator, denominator>>
               ELSE <<0 - nominator, 0 - denominator>>
    IN  IF denominator = 0 THEN "ZeroDivisionError"
        ELSE PyBool(FracGE(res, <<1, 1 + ALPHA>>))

\* Lines 51-56 of should_exists: the posterior against 1 / (1 + ALPHA).
\* With p = len(cache) / memory_size, nominator and denominator are kept
\* multiplied by memory_size, which cancels in nominator / denominator.
SCBloomFilter_posterior(bf_ans) ==
    LET apriori_prob == _get_apriori_prob(cache)
        k == num_of_hash_functions
        nominator == IntPow(bf_size, k) * bf_ans * apriori_prob[1]
        denominator == nominator
                       + IntPow(n * k, k) * (apriori_prob[2] - apriori_prob[1])
        res == IF denominator > 0 THEN <<nominator, denominator>>
               ELSE <<0 - nominator, 0 - denominator>>
    IN  IF denominator = 0 THEN "ZeroDivisionError"
        ELSE PyBool(FracGE(res, <<1, 1 + ALPHA>>))

\* should_exists without the `if bf_ans == 0: return False` guard.
SCBloomFilter_should_exists_no_guard(element) ==
    SCBloomFilter_posterior(_check_bloom_filter(element))

\* The value SCBloomFilter.should_exists returns (or the error it raises).
SCBloomFilter_should_exists_ret(element) ==
    LET bf_ans == _check_bloom_filter(element)
    IN  IF bf_ans = 0 THEN "False" ELSE SCBloomFilter_posterior(bf_ans)

SCBloomFilter_add_new(element) ==
    /\ ds = "SCBloomFilter"
    /\ Len(hist) < MaxOps
    /\ elements' = elements \cup {element}
    /\ cache' = LRUCache_put(cache, capacity, element)
    /\ IF ~_satisfy_paradox(cache', bound) /\ ~cap_reached(n)
       THEN /\ bloom_filter' = _add_element_to_bloom_filter(bloom_filter, element)
            /\ n' = n + 1
            /\ bound' = _update_bound(n')
            /\ admitted' = Append(admitted, element)
       ELSE UNCHANGED <<bloom_filter, n, bound, admitted>>
    /\ hist' = Append(hist, element)
    /\ op' = "add_new"
    /\ ret' = "None"
    /\ UNCHANGED <<config, table>>

SCBloomFilter_should_exists(element) ==
    /\ ds = "SCBloomFilter"
    /\ op' = "should_exists"
    /\ ret' = SCBloomFilter_should_exists_ret(element)
    /\ UNCHANGED <<config, oracle, sketch, hist, admitted>>

(* ------------------------- DataStructure.is_exists --------------------- *)
is_exists_ret(element) == LRUCache_check_if_exists(cache, element)

\* is_exists that refreshes the key it finds, as an LRU read would.
is_exists_touch(element) ==
    /\ op' = "is_exists"
    /\ ret' = PyBool(is_exists_ret(element))
    /\ cache' = IF is_exists_ret(element)
                THEN OrderedDict_move_to_end(cache, element) ELSE cache
    /\ UNCHANGED <<config, sketch, hist, admitted>>

is_exists(element) ==
    /\ op' = "is_exists"
    /\ ret' = PyBool(is_exists_ret(element))
    /\ UNCHANGED <<config, oracle, sketch, hist, admitted>>

(* ------------------------------ the system ----------------------------- *)
\* The state after MinCut(...) or SCBloomFilter(...) returns.
Init ==
    /\ ds \in {"MinCut", "SCBloomFilter"}
    /\ num_of_hash_functions = NUM_OF_HASH_FUNCTIONS
    /\ capacity \in 1..CACHE_SIZE
    /\ cache = <<>>
    /\ mmh3_hash \in [Keys \X HashSeeds -> HashVals]
    /\ HashSorted(mmh3_hash)
    /\ elements = {}
    /\ IF ds = "MinCut"
       THEN /\ num_of_buckets = MC_NUM_OF_BUCKETS
            /\ num_of_elements_to_save = MC_NUM_OF_HEAVY_HITTERS
            /\ table = _init_table(NUM_OF_HASH_FUNCTIONS, MC_NUM_OF_BUCKETS)
            /\ bf_size = 0 /\ max_n = 0 /\ memory_size = 0 /\ n = 0
            /\ bound = <<0, 1>>
            /\ bloom_filter = <<>>
       ELSE /\ n = 0
            /\ max_n = BF_MAX_NUMBER_OF_ELEMENTS
            /\ bound = _update_bound(0)
            /\ bf_size = BF_SIZE
            /\ bloom_filter = [j \in 0..(BF_SIZE - 1) |-> 0]
            /\ memory_size = BF_MEMORY_SIZE
            /\ num_of_buckets = 0 /\ num_of_elements_to_save = 0
            /\ table = <<>>
    /\ hist = <<>>
    /\ admitted = <<>>
    /\ op = "init"
    /\ ret = "None"

Next ==
    \E element \in Keys :
        \/ MinCut_add_new(element)
        \/ MinCut_should_exists(element)
        \/ SCBloomFilter_add_new(element)
        \/ SCBloomFilter_should_exists(element)
        \/ is_exists(element)

Spec == Init /\ [][Next]_vars

(* ----------------- SCBloomFilter with other arguments ------------------ *)
\* The calls made on an SCBloomFilter.
NextBF ==
    \E element \in Keys :
        \/ SCBloomFilter_add_new(element)
        \/ SCBloomFilter_should_exists(element)
        \/ is_exists(element)

\* The constructors check none of their arguments.  The state after
\* SCBloomFilter(k, cache_size, BF_SIZE, BF_MAX_NUMBER_OF_ELEMENTS, memory_size)
\* with cache_size in 0..CACHE_SIZE and a memory_size no larger than the
\* window, so that the prior len(cache) / memory_size takes the values 0, 1
\* and more than 1.
InitArgs ==
    /\ ds = "SCBloomFilter"
    /\ num_of_hash_functions = NUM_OF_HASH_FUNCTIONS
    /\ capacity \in 0..CACHE_SIZE
    /\ cache = <<>>
    /\ mmh3_hash \in [Keys \X HashSeeds -> HashVals]
    /\ HashSorted(mmh3_hash)
    /\ elements = {}
    /\ n = 0
    /\ max_n = BF_MAX_NUMBER_OF_ELEMENTS
    /\ bound = _update_bound(0)
    /\ bf_size = BF_SIZE
    /\ bloom_filter = [j \in 0..(BF_SIZE - 1) |-> 0]
    /\ memory_size \in 1..CACHE_SIZE
    /\ num_of_buckets = 0 /\ num_of_elements_to_save = 0
    /\ table = <<>>
    /\ hist = <<>>
    /\ admitted = <<>>
    /\ op = "init"
    /\ ret = "None"

SpecArgs == InitArgs /\ [][NextBF]_vars

\* The state after SCBloomFilter(k, CACHE_SIZE, BF_SIZE + 1,
\* BF_MAX_NUMBER_OF_ELEMENTS + 1, 1): every argument positive, three Bloom
\* cells, and a hash that reaches each of them.
InitSmallMemory ==
    /\ ds = "SCBloomFilter"
    /\ num_of_hash_functions = NUM_OF_HASH_FUNCTIONS
    /\ capacity = CACHE_SIZE
    /\ cache = <<>>
    /\ mmh3_hash \in [Keys \X HashSeeds -> HashVals \cup {1}]
    /\ elements = {}
    /\ n = 0
    /\ max_n = BF_MAX_NUMBER_OF_ELEMENTS + 1
    /\ bound = _update_bound(0)
    /\ bf_size = BF_SIZE + 1
    /\ bloom_filter = [j \in 0..BF_SIZE |-> 0]
    /\ memory_size = 1
    /\ num_of_buckets = 0 /\ num_of_elements_to_save = 0
    /\ table = <<>>
    /\ hist = <<>>
    /\ admitted = <<>>
    /\ op = "init"
    /\ ret = "None"

SpecSmallMemory == InitSmallMemory /\ [][NextBF]_vars

(* --------------------------- history operators ------------------------- *)
\* How often add_new was called with x.
Count(h, x) == Cardinality({i \in 1..Len(h) : h[i] = x})

\* The position of the latest add_new(x).
LastIndex(h, x) ==
    CHOOSE i \in 1..Len(h) : h[i] = x /\ \A j \in (i + 1)..Len(h) : h[j] # x

\* The (at most) N distinct keys whose latest add_new is most recent: the
\* history read backwards until N distinct keys are found.
RECURSIVE RecentScan(_, _, _)
RecentScan(h, N, acc) ==
    IF h = <<>> \/ Cardinality(acc) >= N THEN acc
    ELSE RecentScan(SubSeq(h, 1, Len(h) - 1), N, acc \cup {h[Len(h)]})
RecentWindow(h, N) == RecentScan(h, N, {})

\* The index the i-th hash function gives key x in a range.
Index(x, i, range_size) == mmh3_hash[x, i] % range_size

\* The least of x's k hashed MinCut counters.
MinEstimate(x) ==
    LET S == {table[i][Index(x, i, num_of_buckets)] : i \in HashSeeds}
    IN  CHOOSE v \in S : \A w \in S : v <= w

\* How many of the k hash functions send x to Bloom cell j.
Hits(x, j) == Cardinality({i \in HashSeeds : Index(x, i, bf_size) = j})

AddStep == hist' # hist
AddedKey == hist'[Len(hist')]

(* -------------------------------- claims ------------------------------- *)
\* C1: is_exists(x) is true exactly for the min(capacity, #distinct) distinct
\* keys whose latest add_new is most recent.
C1_OracleWindow ==
    /\ \A x \in Keys : is_exists_ret(x) <=> x \in RecentWindow(hist, capacity)
    /\ Cardinality({x \in Keys : is_exists_ret(x)})
         = IF Cardinality(SeqToSet(hist)) < capacity
           THEN Cardinality(SeqToSet(hist)) ELSE capacity

\* capacity + 1 distinct keys were inserted in order into a fresh structure:
\* the first is gone, the others are present.
C1_Witness ==
    /\ Len(hist) = capacity + 1
    /\ Cardinality(SeqToSet(hist)) = capacity + 1
    /\ ~is_exists_ret(hist[1])
    /\ \A i \in 2..Len(hist) : is_exists_ret(hist[i])
    /\ op = "is_exists" /\ ret = "False"

\* C2: the oracle never holds more than capacity keys, and an add_new evicts
\* at most one key, the least recently inserted of those it held.
C2_Evicted == SeqToSet(cache) \ SeqToSet(cache')
C2_Step ==
    AddStep =>
        /\ SeqToSet(cache') = (SeqToSet(cache) \cup {AddedKey}) \ C2_Evicted
        /\ AddedKey \notin C2_Evicted
        /\ Cardinality(C2_Evicted) <= 1
        /\ \A e \in C2_Evicted : \A y \in SeqToSet(cache) :
               LastIndex(hist, e) <= LastIndex(hist, y)
C2_OracleBounded == [](Len(cache) <= capacity) /\ [][C2_Step]_vars

\* An add_new has just evicted a key from a full window.
C2_Witness ==
    /\ op = "add_new"
    /\ Len(cache) = capacity
    /\ Cardinality(SeqToSet(hist)) > capacity
    /\ hist[Len(hist)] \notin SeqToSet(SubSeq(hist, 1, Len(hist) - 1))

\* C3: in MinCut the minimum over x's k hashed counters is at least the
\* number of times x was inserted.
C3_NoUnderestimate ==
    ds = "MinCut" =>
        \A x \in Keys :
            _count(table, _get_hash_values(x, num_of_buckets)) >= Count(hist, x)

\* A key inserted twice shares a counter with another inserted key.
C3_Witness ==
    /\ ds = "MinCut"
    /\ \E x, y \in Keys :
          /\ x # y /\ Count(hist, x) >= 2 /\ Count(hist, y) >= 1
          /\ \E i \in HashSeeds :
                Index(x, i, num_of_buckets) = Index(y, i, num_of_buckets)
          /\ MinEstimate(x) > Count(hist, x)

\* C4: every counter is >= 0 and never decreases; it changes only in an
\* add_new and then by one per hash function that hits it.
C4_NonNegative ==
    /\ ds = "MinCut" =>
          \A i \in DOMAIN table : \A j \in DOMAIN table[i] : table[i][j] >= 0
    /\ ds = "SCBloomFilter" =>
          \A j \in DOMAIN bloom_filter : bloom_filter[j] >= 0
C4_Step ==
    /\ ds = "MinCut" =>
          \A i \in DOMAIN table : \A j \in DOMAIN table[i] :
              table'[i][j] = table[i][j]
                  + (IF AddStep /\ Index(AddedKey, i, num_of_buckets) = j
                     THEN 1 ELSE 0)
    /\ ds = "SCBloomFilter" =>
          \/ \A j \in DOMAIN bloom_filter : bloom_filter'[j] = bloom_filter[j]
          \/ /\ AddStep
             /\ \A j \in DOMAIN bloom_filter :
                   bloom_filter'[j] = bloom_filter[j] + Hits(AddedKey, j)
C4_CounterMonotone == []C4_NonNegative /\ [][C4_Step]_vars

\* An admitted key whose hash functions coincide raised one Bloom counter by 2.
C4_Witness ==
    /\ ds = "SCBloomFilter"
    /\ op = "add_new"
    /\ n = 1
    /\ \E j \in DOMAIN bloom_filter : bloom_filter[j] = 2

\* C5: should_exists and is_exists change neither the counters, n, bound,
\* elements nor the oracle's keys and their order.
C5_Step ==
    op' \in {"should_exists", "is_exists"} =>
        UNCHANGED <<cache, table, elements, n, bound, bloom_filter>>
C5_QueriesPure == [][C5_Step]_vars

\* is_exists has just found a key in a window of two or more keys.
C5_Witness ==
    /\ op = "is_exists" /\ ret = "True"
    /\ Len(cache) >= 2

\* C6: in SCBloomFilter a zero at any of the key's hashed counters makes
\* should_exists false.
C6_ZeroGuarantee ==
    ds = "SCBloomFilter" =>
        \A x \in Keys :
            (\E i \in HashSeeds : bloom_filter[Index(x, i, bf_size)] = 0)
                => SCBloomFilter_should_exists_ret(x) = "False"

\* should_exists answered False for a key with one counter 0 and one not.
C6_Witness ==
    /\ ds = "SCBloomFilter"
    /\ op = "should_exists" /\ ret = "False"
    /\ \E x \in Keys : \E i, j \in HashSeeds :
          /\ bloom_filter[Index(x, i, bf_size)] = 0
          /\ bloom_filter[Index(x, j, bf_size)] > 0

\* C7: once n = max_n an add_new changes neither the Bloom counters nor n.
C7_Step ==
    (ds = "SCBloomFilter" /\ n = max_n /\ AddStep) =>
        UNCHANGED <<bloom_filter, n>>
C7_AdmissionCap == [][C7_Step]_vars

\* The last add_new found n = max_n and a prior that met the bound, and
\* was turned away by the capacity test.
C7_Witness ==
    /\ ds = "SCBloomFilter"
    /\ op = "add_new"
    /\ n = max_n
    /\ hist[Len(hist)] \notin SeqToSet(admitted)
    /\ ~_satisfy_paradox(cache, bound)

\* C8: 0 <= n <= max_n.
C8_AdmittedBounded == ds = "SCBloomFilter" => (0 <= n /\ n <= max_n)

\* The filter is full.
C8_Witness == ds = "SCBloomFilter" /\ n = max_n /\ Len(admitted) = max_n

ArgsPositive ==
    /\ num_of_hash_functions > 0
    /\ capacity > 0
    /\ ds = "MinCut" => (num_of_buckets > 0 /\ num_of_elements_to_save > 0)
    /\ ds = "SCBloomFilter" => (bf_size > 0 /\ max_n > 0 /\ memory_size > 0)

\* C11: on an instance built with positive arguments no call ends in a
\* runtime error.
C11_NoRuntimeError == ArgsPositive => ret # "ZeroDivisionError"

\* C12: an instance with a non-positive argument does not exist: none ever
\* takes an add_new or should_exists call.
C12_RejectsNonPositive ==
    op \in {"add_new", "should_exists"} => ArgsPositive

\* The arguments of the last N add_new calls.
LastCalls(h, N) ==
    IF Len(h) <= N THEN SeqToSet(h)
    ELSE SeqToSet(SubSeq(h, Len(h) - N + 1, Len(h)))

\* C13 as stated: is_exists(x) is true exactly when x was the argument of one
\* of the last `capacity` add_new calls, repeated keys counting each time.
C13_LastCalls ==
    \A x \in Keys : is_exists_ret(x) <=> x \in LastCalls(hist, capacity)

\* C13 amended: is_exists(x) is true exactly when some add_new(x) is followed
\* by insertions that, with x, name at most `capacity` distinct keys (a
\* repeated key counts once); every key of the last `capacity` calls is present.
C13_LastDistinct ==
    /\ \A x \in Keys :
          is_exists_ret(x)
              <=> \E j \in 1..Len(hist) :
                      /\ hist[j] = x
                      /\ Cardinality(SeqToSet(SubSeq(hist, j, Len(hist))))
                             <= capacity
    /\ \A x \in LastCalls(hist, capacity) : is_exists_ret(x)

\* is_exists found a key that is older than the last `capacity` calls.
C13_Witness ==
    /\ op = "is_exists" /\ ret = "True"
    /\ Len(hist) > capacity
    /\ \E x \in Keys : is_exists_ret(x) /\ x \notin LastCalls(hist, capacity)

\* C14: bound is 0 while n = 0; from the first admission on it is one positive
\* value fixed by bf_size and max_n, and no later add_new changes it.
C14_BoundValue ==
    ds = "SCBloomFilter" =>
        /\ n = 0 => bound[1] = 0
        /\ n > 0 => /\ bound[1] > 0 /\ bound[2] > 0
                    /\ bound = <<1000, 1000 + ALPHA * pow2_of_load>>
C14_Step == (ds = "SCBloomFilter" /\ n > 0) => bound' = bound
C14_BoundFixed == []C14_BoundValue /\ [][C14_Step]_vars

\* Two keys have been admitted and, before or after, a key skipped.
C14_Witness ==
    /\ ds = "SCBloomFilter"
    /\ op = "add_new"
    /\ n = 2
    /\ Len(hist) > Len(admitted)
    /\ bound[1] > 0

\* C15: should_exists with prior 0 answers False, with prior 1 and a positive
\* product of counters answers True; neither raises.
C15_DegeneratePriors ==
    ds = "SCBloomFilter" =>
        \A x \in Keys :
            /\ Len(cache) = 0 => SCBloomFilter_should_exists_ret(x) = "False"
            /\ (Len(cache) = memory_size /\ _check_bloom_filter(x) > 0)
                   => SCBloomFilter_should_exists_ret(x) = "True"

\* The prior is 0 (an empty window) for a key whose counters are all positive.
C15_Witness ==
    /\ ds = "SCBloomFilter"
    /\ op = "should_exists" /\ ret = "False"
    /\ Len(cache) = 0
    /\ \E x \in Keys : _check_bloom_filter(x) > 0

\* C16: SCBloomFilter.add_new refreshes the oracle and the set first, then
\* admits the key exactly when the prior after the refresh is >= bound and
\* n < max_n: each hashed counter rises by one per hit and n by one;
\* otherwise the counters and n stay.
C16_Admit ==
    /\ Len(cache') * bound[2] >= bound[1] * memory_size
    /\ n < max_n
C16_Step ==
    (ds = "SCBloomFilter" /\ AddStep) =>
        /\ elements' = elements \cup {AddedKey}
        /\ Len(cache') >= 1 /\ cache'[Len(cache')] = AddedKey
        /\ IF C16_Admit
           THEN /\ n' = n + 1
                /\ \A j \in DOMAIN bloom_filter :
                      bloom_filter'[j] = bloom_filter[j] + Hits(AddedKey, j)
           ELSE UNCHANGED <<bloom_filter, n>>
C17_Step ==
    (AddStep /\ AddedKey \in SeqToSet(cache)) =>
        /\ SeqToSet(cache') = SeqToSet(cache)
        /\ Len(cache') = Len(cache)
        /\ cache' = Append(SelectSeq(cache, LAMBDA y : y # AddedKey), AddedKey)
C17_Refresh == [][C17_Step]_vars

\* The oldest key of a full window of two or more was inserted again and is
\* now the newest.
C17_Witness ==
    /\ op = "add_new"
    /\ Len(hist) >= 3
    /\ Len(cache) >= 2 /\ Len(cache) = capacity
    /\ cache[Len(cache)] = hist[Len(hist)]
    /\ hist[Len(hist)] # hist[Len(hist) - 1]
    /\ hist[Len(hist)]
           \in RecentWindow(SubSeq(hist, 1, Len(hist) - 1), capacity)

\* C18: every admitted key has all its hashed Bloom counters >= 1 ever after;
\* a key with a zero at a hashed position was never admitted.
C18_AdmittedNonZero ==
    ds = "SCBloomFilter" =>
        \A x \in Keys :
            /\ x \in SeqToSet(admitted)
                  => \A i \in HashSeeds : bloom_filter[Index(x, i, bf_size)] >= 1
            /\ (\E i \in HashSeeds : bloom_filter[Index(x, i, bf_size)] = 0)
                  => x \notin SeqToSet(admitted)

\* An admitted key with two distinct cells, after a later add_new that was
\* not admitted.
C18_Witness ==
    /\ ds = "SCBloomFilter"
    /\ op = "add_new"
    /\ Len(hist) > Len(admitted)
    /\ \E x \in SeqToSet(admitted) :
          /\ Index(x, 0, bf_size) # Index(x, 1, bf_size)
          /\ hist[Len(hist)] # x

\* C19: the Bloom counters add up to n * num_of_hash_functions.
RECURSIVE SumCounters(_, _)
SumCounters(bf, cells) ==
    IF cells = {} THEN 0
    ELSE LET j == CHOOSE c \in cells : TRUE
         IN  bf[j] + SumCounters(bf, cells \ {j})
C19_CounterSum ==
    ds = "SCBloomFilter" =>
        SumCounters(bloom_filter, DOMAIN bloom_filter) = n * num_of_hash_functions

\* Two keys were admitted, one of them with coinciding hash positions.
C19_Witness ==
    /\ ds = "SCBloomFilter"
    /\ n = 2
    /\ \E x \in SeqToSet(admitted) : Index(x, 0, bf_size) = Index(x, 1, bf_size)

=============================================================================
